---------------------------- MODULE Spec2Model ----------------------------
(***************************************************************************)
(* Game-state and puzzle-progression core of the trivia game:              *)
(* GameStateManager, PuzzleEngine, StorageManager and the GameApplication  *)
(* orchestrator with its suspended answer handlers.                        *)
(***************************************************************************)
EXTENDS Integers, Sequences, FiniteSets, TLC

VARIABLES
    gs,            \* GameStateManager fields
    pe,            \* PuzzleEngine: puzzles loaded, currentPuzzleIndex
    sm,            \* StorageManager: isAvailable
    ls,            \* the browser's localStorage: usable, quota, the item under storageKey
    ui,            \* what the UIManager has put in the DOM
    isInitialized, \* GameApplication.isInitialized
    handlers,      \* how many handlePuzzleAnswer invocations are suspended at each await
    now,           \* wall clock read by new Date()
    snap,          \* a value returned by getState(), held by a caller of the GameStateManager
    call,          \* the last application of a PuzzleEngine function: arguments and result
    advanceCalls,  \* history: advancePuzzle() invocations since the state was last fresh
    accepted,      \* history: submissions validated as correct since the last start/reset
    lastSaved,     \* history: the object handed to the last successful saveGameProgress
    saveResult,    \* history: whether the session's latest saveGameProgress call returned true
    lastOp         \* history: the last operation invoked on the application from outside

vars == <<gs, pe, sm, ls, ui, isInitialized, handlers, now, snap, call,
          advanceCalls, accepted, lastSaved, saveResult, lastOp>>

-----------------------------------------------------------------------------
(* Bounds of the model *)

MaxClock == 1
MaxHandlers == 2
MaxAdvanceCalls == 13
MaxOptions == 3

-----------------------------------------------------------------------------
(* Values *)

Null == [null |-> TRUE]
Undefined == [undefined |-> TRUE]

\* !v for an object reference
IsFalsy(v) == v \in {Null, Undefined}

\* A JavaScript Date object holding time value t, and the ISO string JSON gives for it.
DateObj(t) == [date |-> t]
IsoString(t) == [iso |-> t]

IsDateObj(v) == DOMAIN v = {"date"}
IsIsoString(v) == DOMAIN v = {"iso"}

\* new Date(v) for a Date object or a date string
NewDate(v) == IF IsDateObj(v) THEN DateObj(v.date) ELSE DateObj(v.iso)

\* Date.prototype.toJSON
ToJSONValue(v) == IF IsDateObj(v) THEN IsoString(v.date) ELSE v

RECURSIVE GCD(_, _)
GCD(a, b) == IF b = 0 THEN a ELSE GCD(b, a % b)

\* The number n/d, in lowest terms
Frac(n, d) == LET g == GCD(n, d) IN <<n \div g, d \div g>>

FracLeq(a, b) == a[1] * b[2] <= b[1] * a[2]

-----------------------------------------------------------------------------
(* GameStateManager *)

totalPuzzles == 11

GameStateManager_new ==
    [currentPuzzleIndex |-> -1,
     completedPuzzles   |-> 0,
     carPosition        |-> Frac(0, 1),
     startTime          |-> Null,
     endTime            |-> Null,
     isGameComplete     |-> FALSE,
     playerName         |-> ""]

initializeGame(g) ==
    [g EXCEPT !.currentPuzzleIndex = -1,
              !.completedPuzzles = 0,
              !.carPosition = Frac(0, 1),
              !.startTime = Null,
              !.endTime = Null,
              !.isGameComplete = FALSE,
              !.playerName = ""]

updateCarPosition_byIndex(g) ==
    [g EXCEPT !.carPosition = Frac(g.currentPuzzleIndex * 100, totalPuzzles)]

updateCarPosition(g) ==
    [g EXCEPT !.carPosition = Frac(g.completedPuzzles * 100, totalPuzzles)]

advancePuzzle_capped(g, t) ==
    IF g.currentPuzzleIndex < totalPuzzles - 1
    THEN LET g1 == [g EXCEPT !.currentPuzzleIndex = @ + 1,
                             !.completedPuzzles = @ + 1]
             g2 == updateCarPosition(g1)
         IN  IF g2.startTime = Null THEN [g2 EXCEPT !.startTime = DateObj(t)] ELSE g2
    ELSE g

\* completedPuzzles capped at totalPuzzles, the index still moving
advancePuzzle_cappedCount(g, t) ==
    IF g.currentPuzzleIndex < totalPuzzles
    THEN LET g1 == [g EXCEPT !.currentPuzzleIndex = @ + 1,
                             !.completedPuzzles = IF @ < totalPuzzles THEN @ + 1 ELSE @]
             g2 == updateCarPosition(g1)
         IN  IF g2.startTime = Null THEN [g2 EXCEPT !.startTime = DateObj(t)] ELSE g2
    ELSE g

\* startTime stamped by every call
advancePuzzle_restamps(g, t) ==
    IF g.currentPuzzleIndex < totalPuzzles
    THEN LET g1 == [g EXCEPT !.currentPuzzleIndex = @ + 1,
                             !.completedPuzzles = @ + 1]
             g2 == updateCarPosition(g1)
         IN  [g2 EXCEPT !.startTime = DateObj(t)]
    ELSE g

advancePuzzle(g, t) ==
    IF g.currentPuzzleIndex < totalPuzzles
    THEN LET g1 == [g EXCEPT !.currentPuzzleIndex = @ + 1,
                             !.completedPuzzles = @ + 1]
             g2 == updateCarPosition(g1)
         IN  IF g2.startTime = Null THEN [g2 EXCEPT !.startTime = DateObj(t)] ELSE g2
    ELSE g

getGameProgress(g) ==
    [currentPuzzleIndex |-> g.currentPuzzleIndex,
     completedPuzzles   |-> g.completedPuzzles,
     totalPuzzles       |-> totalPuzzles,
     carPosition        |-> g.carPosition,
     isGameComplete     |-> g.isGameComplete]

completeGame(g, t) == [g EXCEPT !.isGameComplete = TRUE, !.endTime = DateObj(t)]

getGameStats(g) ==
    [puzzlesSolved |-> g.completedPuzzles,
     totalPuzzles  |-> totalPuzzles,
     playerName    |-> g.playerName]

resetGame_keepsTimes(g) ==
    [g EXCEPT !.currentPuzzleIndex = -1, !.completedPuzzles = 0,
              !.carPosition = Frac(0, 1), !.isGameComplete = FALSE]

resetGame(g) == initializeGame(g)

getState(g) ==
    [currentPuzzleIndex |-> g.currentPuzzleIndex,
     completedPuzzles   |-> g.completedPuzzles,
     carPosition        |-> g.carPosition,
     startTime          |-> g.startTime,
     endTime            |-> g.endTime,
     isGameComplete     |-> g.isGameComplete,
     playerName         |-> g.playerName]

restoreState_dropsComplete(g, state) ==
    [g EXCEPT !.currentPuzzleIndex = state.currentPuzzleIndex,
              !.completedPuzzles = state.completedPuzzles,
              !.carPosition = state.carPosition,
              !.startTime = IF state.startTime # Null THEN NewDate(state.startTime) ELSE Null,
              !.endTime = IF state.endTime # Null THEN NewDate(state.endTime) ELSE Null,
              !.playerName = IF state.playerName # "" THEN state.playerName ELSE ""]

restoreState(g, state) ==
    [g EXCEPT !.currentPuzzleIndex = state.currentPuzzleIndex,
              !.completedPuzzles = state.completedPuzzles,
              !.carPosition = state.carPosition,
              !.startTime = IF state.startTime # Null THEN NewDate(state.startTime) ELSE Null,
              !.endTime = IF state.endTime # Null THEN NewDate(state.endTime) ELSE Null,
              !.isGameComplete = state.isGameComplete,
              !.playerName = IF state.playerName # "" THEN state.playerName ELSE ""]

-----------------------------------------------------------------------------
(* Puzzle catalog and PuzzleEngine *)

Trivia(opts, correct) == [type |-> "trivia", options |-> opts, correctAnswerIndex |-> correct]

puzzleData ==
    << Trivia(<<"6", "7", "8", "5">>, 1),
       Trivia(<<"Red Bull", "Ferrari", "Mercedes", "McLaren">>, 2),
       Trivia(<<"7", "8", "6", "9">>, 1),
       Trivia(<<"2020", "2022", "2021", "2023">>, 1),
       Trivia(<<"That's what she said", "Dunder Mifflin", "Bears, Beets", "The Office">>, 0),
       Trivia(<<"Sabre", "Dunder Mifflin", "Wernham Hogg", "Staples">>, 1),
       Trivia(<<"Bike trips", "Office hours", "Whiskey buddies", "Skydiving in Dubai">>, 3),
       Trivia(<<"Chili parties", "Watching paint dry", "Competitive knitting", "Bottle caps">>, 0),
       Trivia(<<"1-2 hours", "3-4 hours", "5-6 hours", "We don't work together">>, 2),
       Trivia(<<"Okay buddy", "Our secret recipe", "The great pizza debate", "Matching socks">>, 0),
       Trivia(<<"Just colleagues", "Work wife and work husband", "Competitors", "Strangers">>, 1) >>

PuzzleEngine_new == [puzzles |-> <<>>, currentPuzzleIndex |-> 0]

\* What await import('../data/puzzles.js') gives: the module with the catalog, a
\* module whose catalog is empty, or a rejection (the file cannot be fetched)
Imported(catalog) == [fulfilled |-> TRUE, puzzleData |-> catalog]
ImportRejected == [fulfilled |-> FALSE]
ImportOutcomes == {Imported(puzzleData), Imported(<<>>), ImportRejected}

loadPuzzles_silent(e, imported) ==
    IF ~imported.fulfilled THEN [pe |-> e, throws |-> FALSE]
    ELSE [pe |-> [e EXCEPT !.puzzles = imported.puzzleData], throws |-> FALSE]

\* loadPuzzles: the engine afterwards, and whether the error is (re)thrown
loadPuzzles(e, imported) ==
    IF ~imported.fulfilled THEN [pe |-> e, throws |-> TRUE]
    ELSE [pe |-> [e EXCEPT !.puzzles = imported.puzzleData],
          throws |-> Len(imported.puzzleData) = 0]

\* index < length written as index <= length: the element past the end is undefined
getPuzzleByIndex_inclusive(e, index) ==
    IF index >= 0 /\ index <= Len(e.puzzles)
    THEN (IF index < Len(e.puzzles) THEN e.puzzles[index + 1] ELSE Undefined)
    ELSE Null

\* Sequences are 1-based, the catalog's indices 0-based
getPuzzleByIndex(e, index) ==
    IF index >= 0 /\ index < Len(e.puzzles) THEN e.puzzles[index + 1] ELSE Null

getCurrentPuzzle(e) ==
    IF e.currentPuzzleIndex >= 0 /\ e.currentPuzzleIndex < Len(e.puzzles)
    THEN e.puzzles[e.currentPuzzleIndex + 1]
    ELSE Null

\* the last index is left too
getNextPuzzle_pastEnd(e) ==
    IF e.currentPuzzleIndex <= Len(e.puzzles) - 1
    THEN LET e1 == [e EXCEPT !.currentPuzzleIndex = @ + 1]
         IN  [pe |-> e1, result |-> getCurrentPuzzle(e1)]
    ELSE [pe |-> e, result |-> Null]

\* getNextPuzzle: the engine afterwards, and the value returned
getNextPuzzle(e) ==
    IF e.currentPuzzleIndex < Len(e.puzzles) - 1
    THEN LET e1 == [e EXCEPT !.currentPuzzleIndex = @ + 1]
         IN  [pe |-> e1, result |-> getCurrentPuzzle(e1)]
    ELSE [pe |-> e, result |-> Null]

\* A submission: an option index, or the boolean solved-signal of a pattern puzzle
\* (true; FalseAnswer is the boolean false)
IndexAnswer(i) == [kind |-> "index", value |-> i]
SolvedAnswer == [kind |-> "solved", value |-> 1]
FalseAnswer == [kind |-> "solved", value |-> 0]

\* answer == true, which also holds of the number 1
validatePatternMatch_loose(puzzle, answer) == answer.value = 1

validatePatternMatch(puzzle, answer) == answer = SolvedAnswer

validateAnswer_acceptAll(puzzle, answer) == ~IsFalsy(puzzle)

validateAnswer(puzzle, answer) ==
    IF IsFalsy(puzzle) THEN FALSE
    ELSE IF puzzle.type = "trivia"
         THEN answer.kind = "index" /\ answer.value = puzzle.correctAnswerIndex
    ELSE IF puzzle.type = "pattern-match"
         THEN validatePatternMatch(puzzle, answer)
    ELSE FALSE

\* Array.prototype.indexOf: the 0-based position of the first element equal to x
indexOf(options, x) ==
    IF \E k \in 1..Len(options) : options[k] = x
    THEN (CHOOSE k \in 1..Len(options) :
              options[k] = x /\ \A m \in 1..(k - 1) : options[m] # x) - 1
    ELSE -1

\* [options[i], options[j]] = [options[j], options[i]], i and j 0-based
Swap(options, i, j) ==
    [options EXCEPT ![i + 1] = options[j + 1], ![j + 1] = options[i + 1]]

\* The shuffle loop from index i down to 1; rnd[i] is the value
\* Math.floor(Math.random() * (i + 1)) drawn in iteration i
RECURSIVE FisherYates(_, _, _)
FisherYates(options, i, rnd) ==
    IF i > 0 THEN FisherYates(Swap(options, i, rnd[i]), i - 1, rnd) ELSE options

\* j drawn below n in every iteration
RandomDraws_naive(n) == [1..(n - 1) -> 0..(n - 1)]

\* The functions Math.random can realise for an array of n options
RandomDraws(n) == {rnd \in [1..(n - 1) -> 0..(n - 1)] : \A i \in 1..(n - 1) : rnd[i] <= i}

\* options[i]: undefined outside the array
At(options, i) ==
    IF i >= 0 /\ i < Len(options) THEN options[i + 1] ELSE Undefined

\* The two arrays after the loop: the one the loop shuffled, const options =
\* [...puzzle.options], and the argument's own
Shuffled(puzzle, rnd) ==
    [options |-> FisherYates(puzzle.options, Len(puzzle.options) - 1, rnd),
     argument |-> puzzle.options]

randomizeAnswerOptions_keepIndex(puzzle, rnd) ==
    IF puzzle.type # "trivia" THEN puzzle
    ELSE [puzzle EXCEPT !.options = Shuffled(puzzle, rnd).options]

randomizeAnswerOptions(puzzle, rnd) ==
    IF puzzle.type # "trivia" THEN puzzle
    ELSE LET options == Shuffled(puzzle, rnd).options
             correctAnswer == At(puzzle.options, puzzle.correctAnswerIndex)
             newCorrectIndex == indexOf(options, correctAnswer)
         IN  [puzzle EXCEPT !.options = options, !.correctAnswerIndex = newCorrectIndex]

\* The object passed to randomizeAnswerOptions, after the call
randomizeAnswerOptions_argument(puzzle, rnd) ==
    IF puzzle.type # "trivia" THEN puzzle
    ELSE [puzzle EXCEPT !.options = Shuffled(puzzle, rnd).argument]

-----------------------------------------------------------------------------
(* StorageManager over localStorage *)

NoItem == [absent |-> TRUE]

\* JSON.stringify of a getState() object: Dates become ISO strings
JSONstringify(state) ==
    [json |-> [state EXCEPT !.startTime = ToJSONValue(@), !.endTime = ToJSONValue(@)]]

\* A stored text that is not JSON
Corrupted == [text |-> "{invalid json}"]

IsJSONText(text) == DOMAIN text = {"json"}

\* JSON.parse: the value of a JSON text, a SyntaxError raised for any other text
SyntaxError == [throws |-> "SyntaxError"]
JSONparse(text) == IF IsJSONText(text) THEN text.json ELSE SyntaxError

\* localStorage.setItem raises when the store is unusable or its quota is exhausted
setItemThrows(l) == ~l.usable \/ l.full

checkStorageAvailability(l) == ~setItemThrows(l)

StorageManager_new(l) == [isAvailable |-> checkStorageAvailability(l)]

\* <<localStorage afterwards, returned value>>
saveGameProgress_optimistic(s, l, gameState) ==
    IF ~s.isAvailable THEN <<l, FALSE>>
    ELSE IF setItemThrows(l) THEN <<l, TRUE>>
    ELSE <<[l EXCEPT !.item = JSONstringify(gameState)], TRUE>>

\* the new snapshot merged into the stored one: its startTime kept
saveGameProgress_merge(s, l, gameState) ==
    IF ~s.isAvailable THEN <<l, FALSE>>
    ELSE IF setItemThrows(l) THEN <<l, FALSE>>
    ELSE IF IsJSONText(l.item)
         THEN <<[l EXCEPT !.item = [json |-> [JSONstringify(gameState).json
                                       EXCEPT !.startTime = l.item.json.startTime]]], TRUE>>
    ELSE <<[l EXCEPT !.item = JSONstringify(gameState)], TRUE>>

saveGameProgress_recheck(s, l, gameState) ==
    IF setItemThrows(l) THEN <<l, FALSE>>
    ELSE <<[l EXCEPT !.item = JSONstringify(gameState)], TRUE>>

saveGameProgress(s, l, gameState) ==
    IF ~s.isAvailable THEN <<l, FALSE>>
    ELSE IF setItemThrows(l) THEN <<l, FALSE>>
    ELSE <<[l EXCEPT !.item = JSONstringify(gameState)], TRUE>>

loadGameProgress_noCatch(s, l) ==
    IF ~s.isAvailable THEN Null
    ELSE IF l.item = NoItem THEN Null
    ELSE JSONparse(l.item)

\* The read of the stored item is commented out in the source: null on both paths
loadGameProgress(s, l) ==
    IF ~s.isAvailable THEN Null ELSE Null

clearGameProgress_keepsItem(s, l) ==
    IF ~s.isAvailable THEN <<l, FALSE>>
    ELSE IF ~l.usable THEN <<l, FALSE>>
    ELSE <<l, TRUE>>

clearGameProgress(s, l) ==
    IF ~s.isAvailable THEN <<l, FALSE>>
    ELSE IF ~l.usable THEN <<l, FALSE>>
    ELSE <<[l EXCEPT !.item = NoItem], TRUE>>

-----------------------------------------------------------------------------
(* UIManager: the part of the DOM the orchestrator depends on *)

NoPuzzle == -1

UIManager_new ==
    [currentScreen |-> "none", puzzle |-> NoPuzzle, optionsEnabled |-> FALSE, stats |-> Null,
     errorShown |-> FALSE]

renderWelcomeScreen(u) ==
    [u EXCEPT !.currentScreen = "welcome", !.puzzle = NoPuzzle,
              !.optionsEnabled = FALSE, !.stats = Null]

\* Fresh option buttons are enabled; without a puzzle "Loading puzzle..." is shown
renderGameScreen(u, e) ==
    [u EXCEPT !.currentScreen = "game",
              !.puzzle = IF getCurrentPuzzle(e) = Null THEN NoPuzzle ELSE e.currentPuzzleIndex,
              !.optionsEnabled = getCurrentPuzzle(e) # Null,
              !.stats = Null]

renderCompletionScreen(u, stats) ==
    [u EXCEPT !.currentScreen = "completion", !.puzzle = NoPuzzle,
              !.optionsEnabled = FALSE, !.stats = stats]

\* showFeedback puts its message in place of any message shown; errorShown tells
\* whether the message in the document is showError's
showFeedback(u) == [u EXCEPT !.errorShown = FALSE]

showError(u) == [u EXCEPT !.errorShown = TRUE]

disablePuzzleOptions_noop(u) == u

\* Acts on the .puzzle-option elements present in the document
disablePuzzleOptions(u) == [u EXCEPT !.optionsEnabled = FALSE]

enablePuzzleOptions_noop(u) == u

enablePuzzleOptions(u) ==
    [u EXCEPT !.optionsEnabled = (u.currentScreen = "game" /\ u.puzzle # NoPuzzle)]

-----------------------------------------------------------------------------
(* GameApplication *)

\* The awaits of handlePuzzleAnswer: the 1500 ms wait and the car animation of the
\* correct branch, the checkered flag, and the 1500 ms wait of the wrong branch
NoHandlers == [feedbackWait |-> 0, carAnimation |-> 0, flagAnimation |-> 0, retryWait |-> 0]

InFlight == handlers.feedbackWait + handlers.carAnimation
            + handlers.flagAnimation + handlers.retryWait

AllIdle == InFlight = 0

Suspend(hs, at) == [hs EXCEPT ![at] = @ + 1]
Resume(hs, at) == [hs EXCEPT ![at] = @ - 1]

\* advancePuzzle() invocations are counted while the state descends from a fresh one
Bump(c) == IF c < 0 THEN c ELSE c + 1

\* render(): the game state and the DOM afterwards
render(init, g, e, u, t) ==
    IF ~init THEN [gs |-> g, ui |-> u]
    ELSE IF g.currentPuzzleIndex >= totalPuzzles
         THEN LET g1 == completeGame(g, t)
              IN  [gs |-> g1, ui |-> renderCompletionScreen(u, getGameStats(g1))]
    ELSE IF g.currentPuzzleIndex = -1
         THEN [gs |-> g, ui |-> renderWelcomeScreen(u)]
    ELSE [gs |-> g, ui |-> renderGameScreen(u, e)]

\* What the page finds under storageKey when it loads: nothing, the progress an
\* earlier session saved on its first correct answer, or a text that is not JSON
PriorSnapshot == getState(advancePuzzle(GameStateManager_new, 0))
StoredItems == {NoItem, JSONstringify(PriorSnapshot), Corrupted}

NoCall == [op |-> "none"]

Init ==
    /\ gs = GameStateManager_new
    /\ pe = PuzzleEngine_new
    /\ \E usable, full \in BOOLEAN, item \in StoredItems :
           /\ ~usable => (~full /\ item = NoItem)
           /\ ls = [usable |-> usable, full |-> full, item |-> item]
    /\ sm = StorageManager_new(ls)
    /\ ui = UIManager_new
    /\ isInitialized = FALSE
    /\ handlers = NoHandlers
    /\ now = 0
    /\ snap = Null
    /\ call = NoCall
    /\ advanceCalls = 0
    /\ accepted = 0
    /\ lastSaved = Null
    /\ saveResult = FALSE
    /\ lastOp = "construct"

\* initialize(), called once on DOMContentLoaded
Initialize ==
    /\ lastOp = "construct"
    /\ \E imported \in ImportOutcomes :
        LET loaded == loadPuzzles(pe, imported)
            savedProgress == loadGameProgress(sm, ls)
            g1 == IF savedProgress # Null THEN restoreState(gs, savedProgress)
                  ELSE initializeGame(gs)
            r == render(TRUE, g1, loaded.pe, ui, now)
        IN  /\ pe' = loaded.pe
            /\ IF loaded.throws
               THEN \* the catch block: showError, nothing else done
                    /\ ui' = showError(ui)
                    /\ UNCHANGED <<gs, isInitialized, advanceCalls>>
               ELSE /\ gs' = r.gs
                    /\ ui' = r.ui
                    /\ isInitialized' = TRUE
                    /\ advanceCalls' = IF savedProgress # Null THEN -1 ELSE 0
    /\ accepted' = 0
    /\ lastOp' = "initialize"
    /\ UNCHANGED <<sm, ls, handlers, now, snap, call, lastSaved, saveResult>>

\* the engine's index not brought in line with the game state's
StartGame_noSync ==
    /\ advanceCalls < MaxAdvanceCalls
    /\ LET g1 == advancePuzzle(gs, now)
           r == render(isInitialized, g1, pe, ui, now)
       IN  /\ pe' = pe
           /\ gs' = r.gs
           /\ ui' = r.ui
    /\ advanceCalls' = Bump(advanceCalls)
    /\ accepted' = 0
    /\ lastOp' = IF lastOp = "reset" THEN "restart" ELSE "start"
    /\ UNCHANGED <<sm, ls, isInitialized, handlers, now, snap, call, lastSaved, saveResult>>

\* startGame(); lastOp tells a start that follows resetGame() from any other
StartGame ==
    /\ advanceCalls < MaxAdvanceCalls
    /\ LET g1 == advancePuzzle(gs, now)
           e1 == [pe EXCEPT !.currentPuzzleIndex = g1.currentPuzzleIndex]
           r == render(isInitialized, g1, e1, ui, now)
       IN  /\ pe' = e1
           /\ gs' = r.gs
           /\ ui' = r.ui
    /\ advanceCalls' = Bump(advanceCalls)
    /\ accepted' = 0
    /\ lastOp' = IF lastOp = "reset" THEN "restart" ELSE "start"
    /\ UNCHANGED <<sm, ls, isInitialized, handlers, now, snap, call, lastSaved, saveResult>>

\* handlePuzzleAnswer(answer) up to its first await
\* the snapshot taken after the advance instead of before it
HandlePuzzleAnswer_savesAdvanced(answer) ==
    /\ InFlight < MaxHandlers
    /\ accepted < MaxAdvanceCalls
    /\ LET currentPuzzle == getCurrentPuzzle(pe)
           isCorrect == validateAnswer(currentPuzzle, answer)
           u1 == disablePuzzleOptions(ui)
           saved == saveGameProgress(sm, ls, getState(advancePuzzle(gs, now)))
       IN  /\ ui' = IF currentPuzzle = Null THEN u1 ELSE showFeedback(u1)
           /\ IF isCorrect
              THEN /\ ls' = saved[1]
                   /\ lastSaved' = IF saved[2] THEN getState(gs) ELSE lastSaved
                   /\ saveResult' = saved[2]
                   /\ handlers' = Suspend(handlers, "feedbackWait")
                   /\ accepted' = accepted + 1
              ELSE /\ UNCHANGED <<ls, lastSaved, saveResult, accepted>>
                   \* currentPuzzle.correctAnswerIndex of null raises: the handler ends there
                   /\ handlers' = IF currentPuzzle = Null THEN handlers
                                  ELSE Suspend(handlers, "retryWait")
    /\ lastOp' = "answer"
    /\ UNCHANGED <<gs, pe, sm, isInitialized, now, snap, call, advanceCalls>>

HandlePuzzleAnswer(answer) ==
    /\ InFlight < MaxHandlers
    /\ accepted < MaxAdvanceCalls
    /\ LET currentPuzzle == getCurrentPuzzle(pe)
           isCorrect == validateAnswer(currentPuzzle, answer)
           u1 == disablePuzzleOptions(ui)
           saved == saveGameProgress(sm, ls, getState(gs))
       IN  /\ ui' = IF currentPuzzle = Null THEN u1 ELSE showFeedback(u1)
           /\ IF isCorrect
              THEN /\ ls' = saved[1]
                   /\ lastSaved' = IF saved[2] THEN getState(gs) ELSE lastSaved
                   /\ saveResult' = saved[2]
                   /\ handlers' = Suspend(handlers, "feedbackWait")
                   /\ accepted' = accepted + 1
              ELSE /\ UNCHANGED <<ls, lastSaved, saveResult, accepted>>
                   \* currentPuzzle.correctAnswerIndex of null raises: the handler ends there
                   /\ handlers' = IF currentPuzzle = Null THEN handlers
                                  ELSE Suspend(handlers, "retryWait")
    /\ lastOp' = "answer"
    /\ UNCHANGED <<gs, pe, sm, isInitialized, now, snap, call, advanceCalls>>

\* the 1500 ms wait of the correct branch elapses; animateCarMovement starts
FeedbackTimer ==
    /\ handlers.feedbackWait > 0
    /\ handlers' = Suspend(Resume(handlers, "feedbackWait"), "carAnimation")
    /\ UNCHANGED <<gs, pe, sm, ls, ui, isInitialized, now, snap, call,
                   advanceCalls, accepted, lastSaved, saveResult, lastOp>>

\* animateCarMovement resolves: advance, then either the flag animation or render()
CarAnimationDone ==
    /\ handlers.carAnimation > 0
    /\ advanceCalls < MaxAdvanceCalls
    /\ LET g1 == advancePuzzle(gs, now)
           e1 == [pe EXCEPT !.currentPuzzleIndex = g1.currentPuzzleIndex]
           r == render(isInitialized, g1, e1, ui, now)
       IN  /\ pe' = e1
           /\ IF g1.currentPuzzleIndex >= totalPuzzles
              THEN /\ gs' = g1
                   /\ ui' = ui
                   /\ handlers' = Suspend(Resume(handlers, "carAnimation"), "flagAnimation")
              ELSE /\ gs' = r.gs
                   /\ ui' = r.ui
                   /\ handlers' = Resume(handlers, "carAnimation")
    /\ advanceCalls' = Bump(advanceCalls)
    /\ UNCHANGED <<sm, ls, isInitialized, now, snap, call, accepted, lastSaved, saveResult, lastOp>>

\* animateCheckeredFlag resolves: completeGame(), render()
FlagAnimationDone ==
    /\ handlers.flagAnimation > 0
    /\ LET g1 == completeGame(gs, now)
           r == render(isInitialized, g1, pe, ui, now)
       IN  /\ gs' = r.gs
           /\ ui' = r.ui
    /\ handlers' = Resume(handlers, "flagAnimation")
    /\ UNCHANGED <<pe, sm, ls, isInitialized, now, snap, call,
                   advanceCalls, accepted, lastSaved, saveResult, lastOp>>

\* the 1500 ms wait of the wrong branch elapses: options are enabled again
RetryTimer ==
    /\ handlers.retryWait > 0
    /\ ui' = enablePuzzleOptions(ui)
    /\ handlers' = Resume(handlers, "retryWait")
    /\ UNCHANGED <<gs, pe, sm, ls, isInitialized, now, snap, call,
                   advanceCalls, accepted, lastSaved, saveResult, lastOp>>

\* GameApplication.resetGame()
ResetGame ==
    /\ LET cleared == clearGameProgress(sm, ls)
           r == render(isInitialized, resetGame(gs), pe, ui, now)
       IN  /\ ls' = cleared[1]
           /\ lastSaved' = IF cleared[2] THEN Null ELSE lastSaved
           /\ gs' = r.gs
           /\ ui' = r.ui
    /\ saveResult' = FALSE
    /\ advanceCalls' = 0
    /\ accepted' = 0
    /\ lastOp' = "reset"
    /\ UNCHANGED <<pe, sm, isInitialized, handlers, now, snap, call>>

-----------------------------------------------------------------------------
(* The player, through the rendered document *)

\* the timeout showFeedback sets: the message is removed after 3 s
FeedbackExpires ==
    /\ ui.errorShown
    /\ ui' = [ui EXCEPT !.errorShown = FALSE]
    /\ UNCHANGED <<gs, pe, sm, ls, isInitialized, handlers, now, snap, call,
                   advanceCalls, accepted, lastSaved, saveResult, lastOp>>

ClickStart ==
    /\ ui.currentScreen = "welcome"
    /\ StartGame

\* a disabled button takes no click
ClickOption ==
    /\ ui.currentScreen = "game"
    /\ ui.puzzle # NoPuzzle
    /\ ui.optionsEnabled
    /\ \E i \in 0..(Len(puzzleData[ui.puzzle + 1].options) - 1) :
           HandlePuzzleAnswer(IndexAnswer(i))

ClickPlayAgain ==
    /\ ui.currentScreen = "completion"
    /\ ResetGame

-----------------------------------------------------------------------------
(* The environment *)

Tick ==
    /\ now < MaxClock
    /\ now' = now + 1
    /\ UNCHANGED <<gs, pe, sm, ls, ui, isInitialized, handlers, snap, call,
                   advanceCalls, accepted, lastSaved, saveResult, lastOp>>

\* the origin's storage quota fills up or is freed by other pages
QuotaChanges ==
    /\ ls.usable
    /\ ls' = [ls EXCEPT !.full = ~@]
    /\ UNCHANGED <<gs, pe, sm, ui, isInitialized, handlers, now, snap, call,
                   advanceCalls, accepted, lastSaved, saveResult, lastOp>>

\* the page is reloaded: a new GameApplication over the same localStorage
Reload ==
    /\ lastOp # "construct"
    /\ gs' = GameStateManager_new
    /\ pe' = PuzzleEngine_new
    /\ sm' = StorageManager_new(ls)
    /\ ui' = UIManager_new
    /\ isInitialized' = FALSE
    /\ handlers' = NoHandlers
    /\ advanceCalls' = 0
    /\ accepted' = 0
    /\ saveResult' = FALSE
    /\ lastOp' = "construct"
    /\ UNCHANGED <<ls, now, snap, call, lastSaved>>

Next ==
    \/ Initialize
    \/ ClickStart
    \/ ClickOption
    \/ ClickPlayAgain
    \/ FeedbackTimer
    \/ CarAnimationDone
    \/ FlagAnimationDone
    \/ RetryTimer
    \/ FeedbackExpires
    \/ Tick
    \/ QuotaChanges
    \/ Reload

Spec == Init /\ [][Next]_vars

-----------------------------------------------------------------------------
(* One page session (no reload) in which every timer set fires and every        *)
(* animation started resolves: setTimeout callbacks run, and requestAnimationFrame *)
(* keeps calling back until the car animation's progress reaches 1              *)

\* the player clicks the correct option of the puzzle displayed
ClickCorrectOption ==
    /\ ui.currentScreen = "game"
    /\ ui.puzzle # NoPuzzle
    /\ ui.optionsEnabled
    /\ HandlePuzzleAnswer(IndexAnswer(puzzleData[ui.puzzle + 1].correctAnswerIndex))

NextLive ==
    \/ Initialize
    \/ ClickStart
    \/ ClickOption
    \/ ClickPlayAgain
    \/ FeedbackTimer
    \/ CarAnimationDone
    \/ FlagAnimationDone
    \/ RetryTimer
    \/ FeedbackExpires
    \/ Tick
    \/ QuotaChanges

Fairness ==
    /\ WF_vars(FeedbackTimer)
    /\ WF_vars(CarAnimationDone)
    /\ WF_vars(FlagAnimationDone)
    /\ WF_vars(RetryTimer)

SpecLive == Init /\ [][NextLive]_vars /\ Fairness

-----------------------------------------------------------------------------
(* One page session whose callers reach the application object (window.gameApp) *)
(* directly, not through the document's buttons                                   *)
(* (the clock stands still: no time-dependent property is examined here)          *)

Submissions == {IndexAnswer(i) : i \in -1..4} \cup {SolvedAnswer}

CallStartGame ==
    /\ lastOp # "construct"
    /\ StartGame

CallHandlePuzzleAnswer ==
    /\ lastOp # "construct"
    /\ \E a \in Submissions : HandlePuzzleAnswer(a)

CallResetGame ==
    /\ lastOp # "construct"
    /\ ResetGame

NextApi ==
    \/ Initialize
    \/ CallStartGame
    \/ CallHandlePuzzleAnswer
    \/ CallResetGame
    \/ FeedbackTimer
    \/ CarAnimationDone
    \/ FlagAnimationDone
    \/ RetryTimer
    \/ FeedbackExpires

SpecApi == Init /\ [][NextApi]_vars

-----------------------------------------------------------------------------
(* A GameStateManager driven directly through its methods *)

GsmFrame ==
    UNCHANGED <<pe, sm, ls, ui, isInitialized, handlers, call, accepted, lastSaved, saveResult, lastOp>>

GsmInitializeGame ==
    /\ gs' = initializeGame(gs)
    /\ advanceCalls' = 0
    /\ UNCHANGED <<now, snap, call>>
    /\ GsmFrame

GsmAdvancePuzzle ==
    /\ advanceCalls < MaxAdvanceCalls
    /\ gs' = advancePuzzle(gs, now)
    /\ advanceCalls' = Bump(advanceCalls)
    /\ UNCHANGED <<now, snap, call>>
    /\ GsmFrame

GsmCompleteGame ==
    /\ gs' = completeGame(gs, now)
    /\ UNCHANGED <<now, snap, call, advanceCalls>>
    /\ GsmFrame

GsmResetGame ==
    /\ gs' = resetGame(gs)
    /\ advanceCalls' = 0
    /\ UNCHANGED <<now, snap, call>>
    /\ GsmFrame

GsmGetState ==
    /\ snap' = getState(gs)
    /\ UNCHANGED <<gs, now, advanceCalls>>
    /\ GsmFrame

GsmRestoreState ==
    /\ snap # Null
    /\ gs' = restoreState(gs, snap)
    /\ advanceCalls' = -1
    /\ UNCHANGED <<now, snap, call>>
    /\ GsmFrame

NextGsm ==
    \/ GsmInitializeGame
    \/ GsmAdvancePuzzle
    \/ GsmCompleteGame
    \/ GsmResetGame
    \/ GsmGetState
    \/ GsmRestoreState
    \/ Tick

SpecGsm == Init /\ [][NextGsm]_vars

-----------------------------------------------------------------------------
(* The PuzzleEngine's functions applied to arbitrary puzzles and submissions *)
(* (the functions keep no state: one application per behaviour covers them)   *)

OptionTexts == {"6", "7", "8"}

OptionLists == UNION {[1..n -> OptionTexts] : n \in 1..MaxOptions}

TriviaInputs == {Trivia(o, c) : o \in OptionLists, c \in 0..(MaxOptions - 1)}

\* correctAnswerIndex designates one of the options
ValidTrivia == {p \in TriviaInputs : p.correctAnswerIndex < Len(p.options)}

\* a trivia puzzle without options
NoOptionsTrivia == Trivia(<<>>, 0)

PatternPuzzle == [type |-> "pattern-match"]
UnknownPuzzle == [type |-> "riddle"]

PuzzleInputs == ValidTrivia \cup {PatternPuzzle, UnknownPuzzle, Null, Undefined}

AnswerInputs == {IndexAnswer(i) : i \in -1..(MaxOptions + 1)} \cup {SolvedAnswer, FalseAnswer}

EngineFrame ==
    UNCHANGED <<gs, pe, sm, ls, ui, isInitialized, handlers, now, snap,
                advanceCalls, accepted, lastSaved, saveResult, lastOp>>

ApplyValidateAnswer ==
    /\ call = NoCall
    /\ \E puzzle \in PuzzleInputs, answer \in AnswerInputs :
           call' = [op |-> "validateAnswer", puzzle |-> puzzle, answer |-> answer,
                    result |-> validateAnswer(puzzle, answer)]
    /\ EngineFrame

ApplyRandomizeAnswerOptions ==
    /\ call = NoCall
    /\ \E puzzle \in ValidTrivia \cup {NoOptionsTrivia, PatternPuzzle, UnknownPuzzle} :
           \E rnd \in (IF puzzle.type = "trivia" THEN RandomDraws(Len(puzzle.options))
                        ELSE RandomDraws(1)) :
               call' = [op |-> "randomizeAnswerOptions", puzzle |-> puzzle, rnd |-> rnd,
                        result |-> randomizeAnswerOptions(puzzle, rnd),
                        argument |-> randomizeAnswerOptions_argument(puzzle, rnd)]
    /\ EngineFrame

\* Engines holding the catalog, a prefix of it or nothing, at any index
Catalogs == {SubSeq(puzzleData, 1, n) : n \in 0..Len(puzzleData)}

IndexInputs == -2..(Len(puzzleData) + 1)

EngineInputs == {[puzzles |-> c, currentPuzzleIndex |-> i] : c \in Catalogs, i \in IndexInputs}

ApplyGetPuzzleByIndex ==
    /\ call = NoCall
    /\ \E e \in EngineInputs, index \in IndexInputs :
           call' = [op |-> "getPuzzleByIndex", engine |-> e, index |-> index,
                    result |-> getPuzzleByIndex(e, index)]
    /\ EngineFrame

ApplyGetCurrentPuzzle ==
    /\ call = NoCall
    /\ \E e \in EngineInputs :
           call' = [op |-> "getCurrentPuzzle", engine |-> e, index |-> e.currentPuzzleIndex,
                    result |-> getCurrentPuzzle(e)]
    /\ EngineFrame

ApplyGetNextPuzzle ==
    /\ call = NoCall
    /\ \E e \in EngineInputs :
           call' = [op |-> "getNextPuzzle", engine |-> e, index |-> e.currentPuzzleIndex,
                    after |-> getNextPuzzle(e).pe, result |-> getNextPuzzle(e).result]
    /\ EngineFrame

NextEngine ==
    \/ ApplyGetNextPuzzle
    \/ ApplyValidateAnswer
    \/ ApplyRandomizeAnswerOptions
    \/ ApplyGetPuzzleByIndex
    \/ ApplyGetCurrentPuzzle

SpecEngine == Init /\ [][NextEngine]_vars

-----------------------------------------------------------------------------
(* Properties *)

Defaults(g) ==
    /\ g.currentPuzzleIndex = -1
    /\ g.completedPuzzles = 0
    /\ g.carPosition = Frac(0, 1)
    /\ g.isGameComplete = FALSE

\* C1: from a fresh or reset GameStateManager, after any number of advancePuzzle()
\* calls, completedPuzzles never exceeds totalPuzzles and carPosition stays in [0, 100].
C1_CompletedAndCarBounded ==
    advanceCalls >= 0 =>
        /\ gs.completedPuzzles <= totalPuzzles
        /\ FracLeq(Frac(0, 1), gs.carPosition)
        /\ FracLeq(gs.carPosition, Frac(100, 1))

\* C2: in every state reached through initializeGame, advancePuzzle, completeGame,
\* resetGame and restoreState of a snapshot taken by getState, carPosition equals
\* (completedPuzzles / totalPuzzles) * 100.
C2_CarPositionDerived ==
    gs.carPosition = Frac(gs.completedPuzzles * 100, totalPuzzles)

\* C2 witness: a state restored from a snapshot taken after three advances
C2_Witness ==
    /\ advanceCalls = -1
    /\ gs.completedPuzzles = 3
    /\ gs.carPosition = <<300, 11>>

\* C3: over-advancement is idempotent: totalPuzzles + k calls of advancePuzzle() on a
\* fresh GameStateManager leave index totalPuzzles - 1, completed totalPuzzles and
\* position 100, as exactly totalPuzzles calls do.
C3_OverAdvanceIdempotent ==
    advanceCalls >= totalPuzzles =>
        /\ gs.currentPuzzleIndex = totalPuzzles - 1
        /\ gs.completedPuzzles = totalPuzzles
        /\ gs.carPosition = Frac(100, 1)

\* C4: each submission validated as correct causes at most one advancePuzzle(), and
\* while a submission's handler is in flight no other submission is taken: at most
\* one handler is suspended, the options are disabled for as long as it is, and the
\* advances made are the start plus one per accepted submission that got past its
\* animation.
C4_OneAdvancePerSubmission ==
    /\ InFlight <= 1
    /\ InFlight > 0 => ~ui.optionsEnabled
    /\ advanceCalls = (IF gs.currentPuzzleIndex = -1 THEN 0 ELSE 1) + accepted
                        - (handlers.feedbackWait + handlers.carAnimation)

\* C4 witness: a correct submission is in its car animation, the options disabled
C4_Witness ==
    /\ handlers.carAnimation = 1
    /\ accepted = 2
    /\ ui.currentScreen = "game"
    /\ ~ui.optionsEnabled

\* C5: when resetGame() was called while a correct submission's handler was suspended,
\* the resumed continuation does not mutate the game state: once it has finished, the
\* state is still the reset one.
C5_NoMutationAfterReset ==
    (lastOp = "reset" /\ AllIdle) => Defaults(gs)

\* C6: after a successful saveGameProgress(getState()), loadGameProgress returns the
\* saved value, and restoreState of it on a new GameStateManager gives back every field.
C6_SaveLoadRoundTrip ==
    (sm.isAvailable /\ lastSaved # Null /\ ls.item = JSONstringify(lastSaved)) =>
        LET loaded == loadGameProgress(sm, ls)
        IN  /\ loaded # Null
            /\ getState(restoreState(GameStateManager_new, loaded)) = lastSaved

\* C7: when the store is available and holds the snapshot of a previous session,
\* initialize() restores the game state from it.
C7_SessionResumes ==
    (lastOp = "initialize" /\ isInitialized /\ sm.isAvailable /\ IsJSONText(ls.item)) =>
        getState(gs) = getState(restoreState(GameStateManager_new, JSONparse(ls.item)))

\* C8: with N the number of catalog puzzles, the N-th correct submission and no
\* earlier one completes the game: isGameComplete holds only after N accepted
\* submissions, then with endTime set and the completion screen rendered, and it
\* does hold once the N-th submission's handler has finished.
C8_CompleteOnNthCorrect ==
    /\ gs.isGameComplete =>
           /\ accepted = Len(puzzleData)
           /\ gs.endTime # Null
           /\ ui.currentScreen = "completion"
    /\ (accepted = Len(puzzleData) /\ AllIdle) =>
           /\ gs.isGameComplete
           /\ ui.currentScreen = "completion"
    /\ ui.currentScreen = "completion" => gs.isGameComplete

\* C8 witness: the game completed by the eleventh correct submission
C8_Witness ==
    /\ gs.isGameComplete
    /\ accepted = Len(puzzleData)
    /\ ui.currentScreen = "completion"
    /\ AllIdle

\* the submission is not the correct option of the puzzle on display
WrongForDisplayed(a) ==
    /\ ui.currentScreen = "game"
    /\ ui.puzzle # NoPuzzle
    /\ a # IndexAnswer(puzzleData[ui.puzzle + 1].correctAnswerIndex)

\* C9: an invalid submission (wrong, out of range or negative) while a puzzle is
\* displayed changes neither currentPuzzleIndex nor completedPuzzles, writes nothing
\* to storage and leaves the same puzzle displayed; when its wait has elapsed the
\* options of that puzzle are enabled again for a retry.
C9_InvalidAnswerChangesNothing ==
    [][ /\ \A a \in Submissions :
              (WrongForDisplayed(a) /\ HandlePuzzleAnswer(a)) =>
                  /\ gs' = gs
                  /\ ls' = ls
                  /\ ui'.currentScreen = "game"
                  /\ ui'.puzzle = ui.puzzle
                  /\ handlers'.feedbackWait = handlers.feedbackWait
        /\ RetryTimer =>
              /\ gs' = gs
              /\ ls' = ls
              /\ ui'.currentScreen = ui.currentScreen
              /\ ui'.puzzle = ui.puzzle
              /\ (ui.currentScreen = "game" /\ ui.puzzle # NoPuzzle) => ui'.optionsEnabled
      ]_vars

\* C9 witness: the last call was an answer, and the one handler in flight is in the
\* wrong branch's wait with puzzle 2 on display
C9_Witness ==
    /\ lastOp = "answer"
    /\ handlers.retryWait = 1
    /\ InFlight = 1
    /\ ui.currentScreen = "game"
    /\ ui.puzzle = 2
    /\ gs.currentPuzzleIndex = 2
    /\ ~ui.optionsEnabled

\* C10: in every reachable state currentPuzzleIndex lies between -1 and
\* totalPuzzles - 1.
C10_IndexInBounds ==
    /\ gs.currentPuzzleIndex >= -1
    /\ gs.currentPuzzleIndex <= totalPuzzles - 1

\* C11: in every state the application reaches, isGameComplete implies that
\* completedPuzzles equals totalPuzzles.
C11_CompleteMeansAllCompleted ==
    gs.isGameComplete => gs.completedPuzzles = totalPuzzles

\* C12: while no answer handler is in flight, completedPuzzles equals the number
\* of submissions validated as correct since the last start or reset; starting the
\* game completes no puzzle.
C12_CompletedCountsAccepted ==
    (isInitialized /\ AllIdle) => gs.completedPuzzles = accepted

\* C13: for a trivia puzzle with a valid correctAnswerIndex and any integer i,
\* in range or not, validateAnswer returns a boolean that is true exactly when
\* i is the puzzle's correctAnswerIndex.
C13_TriviaTrueIffCorrectIndex ==
    (/\ call.op = "validateAnswer"
     /\ ~IsFalsy(call.puzzle)
     /\ call.puzzle.type = "trivia"
     /\ call.answer.kind = "index") =>
        /\ call.result \in BOOLEAN
        /\ call.result <=> (call.answer.value = call.puzzle.correctAnswerIndex)

\* C13 witness: an index past the last option was submitted and rejected
C13_Witness ==
    /\ call.op = "validateAnswer"
    /\ ~IsFalsy(call.puzzle)
    /\ call.puzzle.type = "trivia"
    /\ call.answer.kind = "index"
    /\ call.answer.value >= Len(call.puzzle.options)
    /\ call.result = FALSE

\* C14: validateAnswer returns false for an absent puzzle (null or undefined) and
\* for a puzzle of a type other than trivia and pattern-match; for a pattern-match
\* puzzle it returns true exactly when the submission is the boolean true.
C14_AbsentUnknownAndPattern ==
    call.op = "validateAnswer" =>
        /\ IsFalsy(call.puzzle) => call.result = FALSE
        /\ (~IsFalsy(call.puzzle) /\ call.puzzle.type \notin {"trivia", "pattern-match"})
               => call.result = FALSE
        /\ (~IsFalsy(call.puzzle) /\ call.puzzle.type = "pattern-match")
               => (call.result <=> (call.answer.kind = "solved" /\ call.answer.value = 1))

\* C14 witness: the index 1 was submitted to a pattern-match puzzle and rejected
C14_Witness ==
    /\ call.op = "validateAnswer"
    /\ call.puzzle = PatternPuzzle
    /\ call.answer = IndexAnswer(1)
    /\ call.result = FALSE

Count(options, x) == Cardinality({k \in 1..Len(options) : options[k] = x})

\* C15: for a trivia puzzle with a valid correctAnswerIndex and every outcome of
\* the shuffle, randomizeAnswerOptions returns the same options in some order
\* (same length, same multiset), a correctAnswerIndex inside the returned list,
\* and at that index the option that was at the original correctAnswerIndex.
C15_ShufflePreservesCorrectOption ==
    (/\ call.op = "randomizeAnswerOptions"
     /\ call.puzzle.type = "trivia"
     /\ call.puzzle.correctAnswerIndex < Len(call.puzzle.options)) =>
        LET before == call.puzzle
            after == call.result
        IN  /\ Len(after.options) = Len(before.options)
            /\ \A x \in OptionTexts : Count(after.options, x) = Count(before.options, x)
            /\ after.correctAnswerIndex \in 0..(Len(after.options) - 1)
            /\ after.options[after.correctAnswerIndex + 1]
                   = before.options[before.correctAnswerIndex + 1]

\* C15 witness: a shuffle that reordered the options and moved the correct one
C15_Witness ==
    /\ call.op = "randomizeAnswerOptions"
    /\ call.puzzle.type = "trivia"
    /\ call.result.options # call.puzzle.options
    /\ call.result.correctAnswerIndex # call.puzzle.correctAnswerIndex

FullDefaults(g) ==
    /\ Defaults(g)
    /\ g.startTime = Null
    /\ g.endTime = Null
    /\ g.playerName = ""

\* C16: resetGame() of the GameStateManager, from any state it can reach, yields
\* currentPuzzleIndex -1, completedPuzzles 0, carPosition 0, isGameComplete false,
\* null startTime and endTime and an empty playerName: the state initializeGame()
\* yields.
C16_ResetYieldsDefaults ==
    [][GsmResetGame => (FullDefaults(gs') /\ gs' = initializeGame(gs))]_vars

\* C16 witness: a manager back at the defaults whose caller holds the snapshot of
\* a completed game with both times set
C16_Witness ==
    /\ FullDefaults(gs)
    /\ snap # Null
    /\ snap.isGameComplete
    /\ snap.startTime # Null
    /\ snap.endTime # Null

\* C17: the orchestrator's resetGame(), called in any state, removes the persisted
\* snapshot (a following loadGameProgress returns null), resets the game state to
\* the defaults and leaves the welcome screen rendered.
C17_ResetRemovesSnapshot ==
    [][ResetGame => (/\ ls'.item = NoItem
                     /\ loadGameProgress(sm', ls') = Null
                     /\ FullDefaults(gs')
                     /\ ui'.currentScreen = "welcome")]_vars

\* C17 amended: resetGame() of an initialized application, called in any state,
\* resets the game state to the defaults and leaves the welcome screen rendered,
\* and a following loadGameProgress returns null; it removes the persisted
\* snapshot when the StorageManager found the store available at construction,
\* and leaves the store untouched otherwise.
C17_ResetRemovesSnapshotWhenAvailable ==
    [][(ResetGame /\ isInitialized) =>
           (/\ sm.isAvailable => ls'.item = NoItem
            /\ ~sm.isAvailable => ls' = ls
            /\ loadGameProgress(sm', ls') = Null
            /\ FullDefaults(gs')
            /\ ui'.currentScreen = "welcome")]_vars

\* C17 witness: reset was called while an accepted answer, whose snapshot had been
\* saved, was still waiting for its feedback timer; the item is gone
C17_Witness ==
    /\ lastOp = "reset"
    /\ sm.isAvailable
    /\ handlers.feedbackWait > 0
    /\ ls.item = NoItem
    /\ FullDefaults(gs)
    /\ ui.currentScreen = "welcome"

\* C18: saveGameProgress returns a boolean and never raises; when the store
\* raises on write it returns false and leaves the store as it was (the game
\* state is not its to change); it returns true only when the serialized value
\* is the item stored under the key.
C18_SaveNeverThrows ==
    LET saved == saveGameProgress(sm, ls, getState(gs))
    IN  /\ saved[2] \in BOOLEAN
        /\ setItemThrows(ls) => (saved[2] = FALSE /\ saved[1] = ls)
        /\ saved[2] = TRUE => saved[1].item = JSONstringify(getState(gs))

\* C18 witness: the first answer was accepted while the quota was exhausted in a
\* session whose StorageManager found the store available; nothing was written
C18_Witness ==
    /\ sm.isAvailable
    /\ ls.full
    /\ lastOp = "answer"
    /\ accepted = 1
    /\ handlers.feedbackWait = 1
    /\ ls.item = NoItem
    /\ gs.completedPuzzles = 1

\* C19: when the StorageManager found the store unavailable at construction,
\* then for the rest of the session, whatever the store does later,
\* saveGameProgress returns false, loadGameProgress returns null and
\* clearGameProgress returns false, none touching the store; a game can still be
\* played to completion.
C19_UnavailableDegrades ==
    ~sm.isAvailable =>
        /\ saveGameProgress(sm, ls, getState(gs)) = <<ls, FALSE>>
        /\ loadGameProgress(sm, ls) = Null
        /\ clearGameProgress(sm, ls) = <<ls, FALSE>>

\* C19 witness: a game played to completion in a session whose StorageManager
\* found the store unavailable, the store having become writable since and still
\* holding what it held when the page loaded
C19_Witness ==
    /\ ~sm.isAvailable
    /\ ~setItemThrows(ls)
    /\ gs.isGameComplete
    /\ ui.currentScreen = "completion"
    /\ accepted = totalPuzzles
    /\ ls.item = JSONstringify(PriorSnapshot)
    /\ lastSaved = Null

\* C20: when the stored value is missing or is not JSON, loadGameProgress returns
\* null, and initialize(), the catalog loaded, leaves a fresh session: default
\* game state, welcome screen, application initialized.
C20_MissingOrCorruptedStartsFresh ==
    ls.item \in {NoItem, Corrupted} =>
        /\ loadGameProgress(sm, ls) = Null
        /\ (lastOp = "initialize" /\ pe.puzzles # <<>>) =>
               (isInitialized /\ FullDefaults(gs) /\ ui.currentScreen = "welcome")

\* C20 witness: initialize() has run over an available store holding a text that
\* is not JSON
C20_Witness ==
    /\ lastOp = "initialize"
    /\ sm.isAvailable
    /\ ls.item = Corrupted
    /\ isInitialized
    /\ ui.currentScreen = "welcome"

\* C21: when the import of the catalog is rejected or gives zero puzzles,
\* loadPuzzles throws and initialize() shows an error message; from then on the
\* application is not initialized and neither the welcome nor a puzzle screen
\* (nor any other) is rendered, whatever is called on it.
C21_CatalogFailureIsFatal ==
    /\ [](/\ \A imported \in ImportOutcomes :
                (~imported.fulfilled \/ Len(imported.puzzleData) = 0)
                    => loadPuzzles(pe, imported).throws
          /\ (lastOp # "construct" /\ pe.puzzles = <<>>) =>
                (~isInitialized /\ ui.currentScreen = "none"))
    /\ [][(Initialize /\ pe'.puzzles = <<>>) => (ui'.errorShown /\ ~isInitialized')]_vars

\* C21 witness: startGame() was called on the application after its catalog had
\* failed to load; the game state advanced and still nothing is rendered
C21_Witness ==
    /\ lastOp = "start"
    /\ pe.puzzles = <<>>
    /\ gs.currentPuzzleIndex = 0
    /\ ~isInitialized
    /\ ui.currentScreen = "none"

\* C22: whenever the completion screen is rendered, the stats handed to the
\* renderer report puzzlesSolved = totalPuzzles.
C22_StatsReportAllSolved ==
    ui.currentScreen = "completion" => ui.stats.puzzlesSolved = ui.stats.totalPuzzles

\* C23: restoreState(getState()) applied to a new GameStateManager reproduces
\* currentPuzzleIndex, completedPuzzles, carPosition, isGameComplete and
\* playerName of the manager the snapshot was taken from, in every state that
\* manager reaches, and null startTime and endTime stay null.
C23_RestoreOfGetState ==
    LET r == restoreState(GameStateManager_new, getState(gs))
    IN  /\ r.currentPuzzleIndex = gs.currentPuzzleIndex
        /\ r.completedPuzzles = gs.completedPuzzles
        /\ r.carPosition = gs.carPosition
        /\ r.isGameComplete = gs.isGameComplete
        /\ r.playerName = gs.playerName
        /\ gs.startTime = Null => r.startTime = Null
        /\ gs.endTime = Null => r.endTime = Null

\* C23 witness: a manager restored from the snapshot its caller holds, taken of
\* a completed game
C23_Witness ==
    /\ advanceCalls = -1
    /\ snap # Null
    /\ getState(gs) = snap
    /\ gs.isGameComplete
    /\ gs.completedPuzzles > 0

\* C24: in every state reached from a fresh GameStateManager by advancePuzzle,
\* completeGame and resetGame, currentPuzzleIndex = completedPuzzles - 1.
C24_IndexIsCompletedMinusOne ==
    advanceCalls >= 0 => gs.currentPuzzleIndex = gs.completedPuzzles - 1

\* C24 witness: advancePuzzle() called once more than there are puzzles, and
\* once again, then completeGame()
C24_Witness ==
    /\ advanceCalls = totalPuzzles + 2
    /\ gs.currentPuzzleIndex = totalPuzzles
    /\ gs.isGameComplete

C26_CompleteGameIdempotent ==
    [][(GsmCompleteGame /\ gs.isGameComplete) => gs' = gs]_vars

\* C27: once isGameComplete is true, no startGame() and no answer submission,
\* with its deferred steps, changes currentPuzzleIndex, completedPuzzles,
\* carPosition or isGameComplete; only resetGame() does, and it leaves the
\* default state and the welcome screen.
C27_CompleteIsTerminal ==
    [][gs.isGameComplete =>
          \/ /\ gs'.currentPuzzleIndex = gs.currentPuzzleIndex
             /\ gs'.completedPuzzles = gs.completedPuzzles
             /\ gs'.carPosition = gs.carPosition
             /\ gs'.isGameComplete
          \/ /\ ResetGame
             /\ FullDefaults(gs')
             /\ ui'.currentScreen = "welcome"]_vars

\* C28: getPuzzleByIndex(i) and getCurrentPuzzle() return the catalog puzzle at
\* the index when 0 <= index < number of puzzles, and null for every index
\* outside that range, -1 and the number of puzzles included.
C28_LookupInRangeOrNull ==
    call.op \in {"getPuzzleByIndex", "getCurrentPuzzle"} =>
        IF 0 <= call.index /\ call.index < Len(call.engine.puzzles)
        THEN call.result = call.engine.puzzles[call.index + 1]
        ELSE call.result = Null

\* C28 witness: the index equal to the number of puzzles was looked up in the
\* loaded catalog, and null came back
C28_Witness ==
    /\ call.op = "getPuzzleByIndex"
    /\ call.engine.puzzles = puzzleData
    /\ call.index = Len(puzzleData)
    /\ call.result = Null

\* C29: handlePuzzleAnswer invoked while no puzzle is in progress (index -1:
\* before start or after reset; or the game complete), with any submission,
\* leaves the game state and the stored item unchanged, accepts nothing and
\* leaves no deferred step behind.
C29_AnswerOutsidePuzzleIgnored ==
    [][((\E a \in Submissions : HandlePuzzleAnswer(a))
          /\ (gs.currentPuzzleIndex = -1 \/ gs.isGameComplete))
       => (gs' = gs /\ ls' = ls /\ accepted' = accepted /\ handlers' = handlers)]_vars

C31_SingleSlotOverwritten ==
    /\ [](lastSaved # Null => ls.item = JSONstringify(lastSaved))
    /\ [][ls'.item # ls.item =>
             \/ /\ accepted' = accepted + 1
                /\ \E a \in Submissions : HandlePuzzleAnswer(a)
                /\ ls'.item = JSONstringify(getState(gs))
             \/ ResetGame /\ ls'.item = NoItem]_vars

\* C31 witness: three answers accepted and saved in a game started at time 1;
\* the slot holds the third snapshot
C31_Witness ==
    /\ saveResult = TRUE
    /\ accepted = 3
    /\ IsJSONText(ls.item)
    /\ ls.item.json.completedPuzzles = 3
    /\ ls.item.json.startTime = IsoString(1)

\* C32: each advancePuzzle() leaves the state unchanged or increases both
\* currentPuzzleIndex and completedPuzzles by exactly 1 and strictly increases
\* carPosition; completedPuzzles decreases only through resetGame,
\* initializeGame or restoreState.
C32_AdvanceByOneOrNothing ==
    [][(GsmAdvancePuzzle =>
           (\/ gs' = gs
            \/ /\ gs'.currentPuzzleIndex = gs.currentPuzzleIndex + 1
               /\ gs'.completedPuzzles = gs.completedPuzzles + 1
               /\ FracLeq(gs.carPosition, gs'.carPosition)
               /\ gs'.carPosition # gs.carPosition))
        /\
       (gs'.completedPuzzles < gs.completedPuzzles =>
           (GsmResetGame \/ GsmInitializeGame \/ GsmRestoreState))]_vars

\* C32 witness: advancePuzzle() called once more than it has effect
C32_Witness ==
    /\ advanceCalls = totalPuzzles + 2
    /\ gs.completedPuzzles = totalPuzzles + 1
    /\ ~gs.isGameComplete

\* C33: randomizeAnswerOptions leaves the puzzle passed in as it was (options
\* order and correctAnswerIndex), returns a non-trivia puzzle itself, and for a
\* trivia puzzle with zero or one option returns the same options with
\* correctAnswerIndex 0.
C33_RandomizeIsPure ==
    call.op = "randomizeAnswerOptions" =>
        /\ call.argument = call.puzzle
        /\ call.puzzle.type # "trivia" => call.result = call.puzzle
        /\ (call.puzzle.type = "trivia" /\ Len(call.puzzle.options) <= 1) =>
               /\ call.result.options = call.puzzle.options
               /\ call.result.correctAnswerIndex = 0

Distinct(options) ==
    \A k, m \in 1..Len(options) : options[k] = options[m] => k = m

\* The orderings of a list of distinct options
Orderings(options) ==
    {o \in [1..Len(options) -> {options[k] : k \in 1..Len(options)}] : Distinct(o)}

\* C34: for n distinct options, each of the n! orderings is the outcome of
\* exactly one sequence of the loop's draws (j in 0..i for i = n-1 down to 1).
C34_ShuffleUnbiased ==
    (/\ call.op = "randomizeAnswerOptions"
     /\ call.puzzle.type = "trivia"
     /\ Distinct(call.puzzle.options)) =>
        LET options == call.puzzle.options
            n == Len(options)
        IN  \A o \in Orderings(options) :
               Cardinality({rnd \in RandomDraws(n) : FisherYates(options, n - 1, rnd) = o}) = 1

\* C34 witness: a list of as many distinct options as the model admits came back
\* from the shuffle reversed
C34_Witness ==
    /\ call.op = "randomizeAnswerOptions"
    /\ call.puzzle.type = "trivia"
    /\ Len(call.puzzle.options) = MaxOptions
    /\ Distinct(call.puzzle.options)
    /\ \A k \in 1..MaxOptions :
           call.result.options[k] = call.puzzle.options[MaxOptions + 1 - k]

\* The values returned by k successive calls of getNextPuzzle
RECURSIVE NextPuzzles(_, _)
NextPuzzles(e, k) ==
    IF k = 0 THEN <<>>
    ELSE <<getNextPuzzle(e).result>> \o NextPuzzles(getNextPuzzle(e).pe, k - 1)

\* The engine after k successive calls of getNextPuzzle
RECURSIVE AfterNextPuzzles(_, _)
AfterNextPuzzles(e, k) ==
    IF k = 0 THEN e ELSE AfterNextPuzzles(getNextPuzzle(e).pe, k - 1)

\* C39: getNextPuzzle, called at an index below the last, adds one to
\* currentPuzzleIndex and returns the puzzle at the new index; at the last index
\* (or beyond) it returns null and leaves the engine as it was. Called again and
\* again from index 0 it returns the puzzles 1..N-1 in order, then null, and
\* stays at N-1.
C39_NextPuzzleInOrder ==
    call.op = "getNextPuzzle" =>
        LET e == call.engine
            N == Len(e.puzzles)
        IN  /\ e.currentPuzzleIndex < N - 1 =>
                   /\ call.after = [e EXCEPT !.currentPuzzleIndex = @ + 1]
                   /\ call.result = getPuzzleByIndex(e, e.currentPuzzleIndex + 1)
                   /\ e.currentPuzzleIndex >= 0 => call.result = e.puzzles[e.currentPuzzleIndex + 2]
            /\ e.currentPuzzleIndex >= N - 1 =>
                   /\ call.after = e
                   /\ call.result = Null
            /\ (e.currentPuzzleIndex = 0 /\ N > 0) =>
                   /\ NextPuzzles(e, N + 1) = Tail(e.puzzles) \o <<Null, Null>>
                   /\ AfterNextPuzzles(e, N + 1).currentPuzzleIndex = N - 1

\* C39 witness: getNextPuzzle called at the last index of the loaded catalog
C39_Witness ==
    /\ call.op = "getNextPuzzle"
    /\ call.engine.puzzles = puzzleData
    /\ call.index = Len(puzzleData) - 1
    /\ call.result = Null
    /\ call.after.currentPuzzleIndex = Len(puzzleData) - 1

FirstGame(t) ==
    LET e0 == loadPuzzles(PuzzleEngine_new, Imported(puzzleData)).pe
        r0 == render(TRUE, initializeGame(GameStateManager_new), e0, UIManager_new, t)
        g1 == advancePuzzle(r0.gs, t)
        e1 == [e0 EXCEPT !.currentPuzzleIndex = g1.currentPuzzleIndex]
        r1 == render(TRUE, g1, e1, r0.ui, t)
    IN  [gs |-> r1.gs, pe |-> e1, ui |-> r1.ui, handlers |-> NoHandlers, isInitialized |-> TRUE]

\* The application's state, as FirstGame gives it
Observable ==
    [gs |-> gs, pe |-> pe, ui |-> ui, handlers |-> handlers, isInitialized |-> isInitialized]

\* C38: after a game played to Complete, resetGame() and then startGame() leave
\* the game state, the engine, the displayed puzzle and the suspended handlers as
\* a brand-new session has them right after startGame(), and the persisted slot
\* empty.
C38_ReplayEquivalence ==
    lastOp = "restart" => (Observable = FirstGame(gs.startTime.date) /\ ls.item = NoItem)

\* C38, amended: the same, with the persisted slot empty when the StorageManager
\* found the store available at construction and the store as it was at the
\* reset when it found the store unavailable. The replayed game then goes on
\* from a state equal to a first game's.
C38_ReplayEquivalenceWhenAvailable ==
    /\ [](lastOp = "restart" =>
             (/\ gs.startTime # Null
              /\ Observable = FirstGame(gs.startTime.date)
              /\ sm.isAvailable => ls.item = NoItem))
    /\ [][(StartGame /\ lastOp = "reset") =>
              (/\ pe.currentPuzzleIndex = totalPuzzles
               /\ gs'.startTime = DateObj(now)
               /\ lastOp' = "restart"
               /\ ~sm.isAvailable => ls' = ls)]_vars

\* C38 witness: a second game started at time 1, after the first, begun at an
\* earlier moment, was played to the end and reset
C38_Witness ==
    /\ lastOp = "restart"
    /\ sm.isAvailable
    /\ ls.item = NoItem
    /\ gs.startTime = DateObj(1)
    /\ gs.endTime = Null
    /\ gs.currentPuzzleIndex = 0
    /\ ui.puzzle = 0

\* C36: with timers firing and animations resolving, a wrong submission's retry
\* wait leads to the options enabled again on the same puzzle; a correct
\* submission's wait leads to the next puzzle displayed with its options enabled
\* or to the completion screen, no handler left suspended; and if the player
\* keeps coming back to click the correct option, every game on the game screen
\* reaches Complete.
C36_ProgressUnderFairness ==
    /\ (handlers.retryWait > 0) ~>
           (/\ handlers.retryWait = 0
            /\ ui.currentScreen = "game"
            /\ ui.optionsEnabled
            /\ ui.puzzle = gs.currentPuzzleIndex)
    /\ [][handlers.retryWait > 0 =>
              (ui'.puzzle = ui.puzzle /\ gs'.currentPuzzleIndex = gs.currentPuzzleIndex)]_vars
    /\ (handlers.feedbackWait > 0) ~>
           (/\ AllIdle
            /\ \/ /\ ui.currentScreen = "game"
                  /\ ui.optionsEnabled
                  /\ ui.puzzle = accepted
               \/ /\ ui.currentScreen = "completion"
                  /\ accepted = totalPuzzles)
    /\ SF_vars(ClickCorrectOption) =>
           ((ui.currentScreen = "game") ~> gs.isGameComplete)

\* C36 witness: a wrong answer to the first puzzle was given, its retry wait is
\* over and the options of the same puzzle are enabled again
C36_Witness ==
    /\ lastOp = "answer"
    /\ accepted = 0
    /\ AllIdle
    /\ ui.currentScreen = "game"
    /\ ui.puzzle = 0
    /\ ui.optionsEnabled

=============================================================================
